---- MODULE Spec2Model ----
(***************************************************************************)
(* Huffman codec of src/src/lib.rs (compress / decompress) and its driver  *)
(* src/src/main.rs, as a state machine.                                    *)
(*                                                                         *)
(* Rust values are represented as follows:                                 *)
(*   Vec<u8>            a sequence of numbers in 0..255                    *)
(*   String, Vec<char>  a sequence of the one-character strings "0", "1"   *)
(*   Option<T>          <<>> for None, <<x>> for Some(x)                   *)
(*   HashMap<K, V>      a function whose domain is the set of keys         *)
(*   Node<u8>           a record [data, weight, left, right]               *)
(*   BinaryHeap<Reverse<Node<u8>>>                                         *)
(*                      the sequence of the nodes pushed and not yet       *)
(*                      popped; pop removes the least node under cmp       *)
(***************************************************************************)
EXTENDS Integers, Sequences, FiniteSets, TLC

\* Longest caller buffer drawn exhaustively from Symbols.
MaxLen == 4
\* Largest count of one symbol in the frequency tables of SpecTree.
MaxCount == 2
\* Number of times the caller of SpecRepeat calls compress on its buffer.
MaxCalls == 2

EOF_CHARACTER == 0

\* Byte values of the exhaustively enumerated buffers: EOF_CHARACTER, 'a', 'z'.
Symbols == {0, 97, 122}
\* Byte values of the tables of SpecTree: EOF_CHARACTER, 'a', 'i', 'p', 'z'.
TreeSymbols == {0, 97, 105, 112, 122}
\* "piazza".as_bytes(), the buffer of main.
Piazza == <<112, 105, 97, 122, 122, 97>>

VARIABLES
    fn,                 \* the function running: "compress", "decompress", "tree"
    pc,                 \* its position
    original,           \* the caller's buffer (compress's parameter data)
    data,               \* compress's local data: the buffer with EOF_CHARACTER pushed
    counter,            \* HashMap<u8, u32>
    heap,               \* build_huffman_tree's heap
    huffman_tree,       \* Option: the root returned by build_huffman_tree
    encoding_map,       \* HashMap<u8, String>
    compressed_data,    \* Option: the Vec<u8> compress returned
    input,              \* decompress's parameter compressed_data
    pos,                \* number of bytes decompress's iter has yielded
    decompressed_data,  \* Option: the Vec<u8> decompress returned
    combines,           \* history: combine steps of the running build_huffman_tree
    last_combine,       \* history: Option [heap, left, right, new_node] of the last step
    eof_decoded,        \* history: the decode loop left by its break
    calls,              \* history: calls of compress made by the caller
    previous            \* history: Option, what the previous call of compress returned

vars == <<fn, pc, original, data, counter, heap, huffman_tree, encoding_map,
          compressed_data, input, pos, decompressed_data, combines, last_combine,
          eof_decoded, calls, previous>>

----------------------------------------------------------------------------
(* Helpers for the representation. *)

RECURSIVE Pow2(_)
Pow2(n) == IF n = 0 THEN 1 ELSE 2 * Pow2(n - 1)

\* HashMap::new()
EmptyMap == [k \in {} |-> 0]

\* HashMap::insert: adds the key or replaces its value.
MapInsert(m, k, v) == [x \in DOMAIN m \cup {k} |-> IF x = k THEN v ELSE m[x]]

\* The orders in which HashMap::iter may yield the entries of m: every order
\* (std's RandomState seeds each map differently).
IterOrders(m) ==
    LET n == Cardinality(DOMAIN m)
    IN  {f \in [1..n -> DOMAIN m] : \A i, j \in 1..n : f[i] = f[j] => i = j}

\* All sequences over S of length at most n.
SeqsUpTo(S, n) == UNION {[1..k -> S] : k \in 0..n}

----------------------------------------------------------------------------
(* struct Node<T> *)

new_leaf(d, w) == [data |-> <<d>>, weight |-> w, left |-> <<>>, right |-> <<>>]

RECURSIVE get_leftmost_child(_)
get_leftmost_child(node) ==
    IF node.left # <<>> THEN get_leftmost_child(node.left[1]) ELSE node

\* combine with the children exchanged.
combine_swapped(self, other) ==
    [data |-> <<>>, weight |-> self.weight + other.weight,
     left |-> <<other>>, right |-> <<self>>]

\* self.weight + other.weight is a u32 sum: it overflows (a panic in a debug build,
\* a wrapped value in a release build) only from 2^32 on, which no weight of the
\* tables below comes near.
combine(self, other) ==
    [data |-> <<>>, weight |-> self.weight + other.weight,
     left |-> <<self>>, right |-> <<other>>]

\* u32::cmp and u8::cmp
IntCmp(a, b) == IF a < b THEN "Less" ELSE IF a = b THEN "Equal" ELSE "Greater"

\* cmp without the tie-breaker: nodes of equal weight compare Equal.
cmp_weight_only(self, other) == IntCmp(self.weight, other.weight)

\* impl Ord for Node<u8>
cmp(self, other) ==
    LET weight_order == IntCmp(self.weight, other.weight)
    IN  IF weight_order = "Equal"
        THEN IntCmp(get_leftmost_child(self).data[1],
                    get_leftmost_child(other).data[1])
        ELSE weight_order

----------------------------------------------------------------------------
(* count_bytes *)

\* *count += 1 is a u32 increment: it cannot overflow on a buffer of fewer than
\* 2^32 bytes.
RECURSIVE CountLoop(_, _, _)
CountLoop(bytes, i, m) ==
    IF i > Len(bytes) THEN m
    ELSE LET byte == bytes[i]
         IN  IF byte \in DOMAIN m
             THEN CountLoop(bytes, i + 1, MapInsert(m, byte, m[byte] + 1))
             ELSE CountLoop(bytes, i + 1, MapInsert(m, byte, 1))

count_bytes(bytes) == CountLoop(bytes, 1, EmptyMap)

----------------------------------------------------------------------------
(* build_huffman_tree: the heap *)

\* The leaves in the order counter.iter() yields the entries, pushed one by one.
PushLeaves(m, order) == [i \in 1..Len(order) |-> new_leaf(order[i], m[order[i]])]

\* Index of the node heap.pop() returns: the greatest Reverse(node), that is the
\* least node under cmp. Two nodes of one heap never compare Equal (their leftmost
\* leaves differ), so the least node is unique; were several least, the heap would
\* return whichever its layout puts first, here the earliest pushed.
HeapPopIndex(h) ==
    LET least == {i \in 1..Len(h) : \A j \in 1..Len(h) : cmp(h[j], h[i]) # "Less"}
    IN  CHOOSE i \in least : \A k \in least : i <= k

HeapRemove(h, i) == SubSeq(h, 1, i - 1) \o SubSeq(h, i + 1, Len(h))

----------------------------------------------------------------------------
(* build_encoding_map *)

\* build_encoding_map_recursive with "0" appended for the right child too.
RECURSIVE build_encoding_map_same_bit(_, _, _)
build_encoding_map_same_bit(map, root, path) ==
    IF root.data # <<>>
    THEN MapInsert(map, root.data[1], path)
    ELSE LET m1 == build_encoding_map_same_bit(map, root.left[1], Append(path, "0"))
         IN  build_encoding_map_same_bit(m1, root.right[1], Append(path, "0"))

RECURSIVE build_encoding_map_recursive(_, _, _)
build_encoding_map_recursive(map, root, path) ==
    IF root.data # <<>>
    THEN MapInsert(map, root.data[1], path)
    ELSE LET m1 == build_encoding_map_recursive(map, root.left[1], Append(path, "0"))
         IN  build_encoding_map_recursive(m1, root.right[1], Append(path, "1"))

build_encoding_map(tree) == build_encoding_map_recursive(EmptyMap, tree, <<>>)

----------------------------------------------------------------------------
(* compress: the header *)

\* The count in little-endian byte order (u32::to_le_bytes).
to_le_bytes(count) ==
    <<count % 256, (count \div 256) % 256, (count \div 65536) % 256,
      (count \div 16777216) % 256>>

\* u32::to_be_bytes
to_be_bytes(count) ==
    <<(count \div 16777216) % 256, (count \div 65536) % 256,
      (count \div 256) % 256, count % 256>>

\* (&u8, &u32) tuples compare by the byte, then by the count.
PairLess(p, q) == p[1] < q[1] \/ (p[1] = q[1] /\ p[2] < q[2])

\* header.sort(), as an insertion sort (the sort is stable and the order total).
RECURSIVE SortInsert(_, _)
SortInsert(sorted, p) ==
    IF sorted = <<>> THEN <<p>>
    ELSE IF PairLess(p, Head(sorted)) THEN <<p>> \o sorted
    ELSE <<Head(sorted)>> \o SortInsert(Tail(sorted), p)

RECURSIVE sort(_)
sort(v) == IF v = <<>> THEN <<>> ELSE SortInsert(sort(SubSeq(v, 1, Len(v) - 1)), v[Len(v)])

RECURSIVE FlatMapEntries(_)
FlatMapEntries(v) ==
    IF v = <<>> THEN <<>>
    ELSE <<Head(v)[1]>> \o to_be_bytes(Head(v)[2]) \o FlatMapEntries(Tail(v))

header_terminator == <<0, 0, 0, 0, 0>>

\* The header for the entries of m collected in iteration order `order`.
BuildHeader(m, order) ==
    LET collected == [i \in 1..Len(order) |-> <<order[i], m[order[i]]>>]
    IN  FlatMapEntries(sort(collected)) \o header_terminator

----------------------------------------------------------------------------
(* compress: the payload *)

\* encoded_chunks.join("")
RECURSIVE EncodeBits(_, _)
EncodeBits(bytes, map) ==
    IF bytes = <<>> THEN <<>> ELSE map[Head(bytes)] \o EncodeBits(Tail(bytes), map)

Digit(c) == IF c = "1" THEN 1 ELSE 0

\* u8::from_str_radix(&byte, 2).unwrap(), on the 8-character strings it is given
RECURSIVE from_str_radix(_)
from_str_radix(s) ==
    IF s = <<>> THEN 0 ELSE 2 * from_str_radix(SubSeq(s, 1, Len(s) - 1)) + Digit(s[Len(s)])

\* for (i, char) in encoded_bits.char_indices(): i is the 0-based index of
\* encoded_bits[i + 1]. Returns the byte string and the bytes at the loop's end.
RECURSIVE PackLoop(_, _, _, _)
PackLoop(encoded_bits, i, byte, encoded_bytes) ==
    IF i >= Len(encoded_bits) THEN [byte |-> byte, encoded_bytes |-> encoded_bytes]
    ELSE IF i # 0 /\ i % 8 = 0
         THEN PackLoop(encoded_bits, i + 1, <<encoded_bits[i + 1]>>,
                       Append(encoded_bytes, from_str_radix(byte)))
         ELSE PackLoop(encoded_bits, i + 1, Append(byte, encoded_bits[i + 1]),
                       encoded_bytes)

\* for _ in 0..8 - byte.len() { byte.push('0') }
PadByte(byte) == byte \o [k \in 1..(8 - Len(byte)) |-> "0"]

EncodeBytes(encoded_bits) ==
    LET r == PackLoop(encoded_bits, 0, <<>>, <<>>)
    IN  Append(r.encoded_bytes, from_str_radix(PadByte(r.byte)))

----------------------------------------------------------------------------
(* decompress: the header groups, the bits and the decode loop *)

\* ReadGroup with an exhausted iterator read as 0 (unwrap_or(&0)) instead of a panic.
ReadGroupLenient(bytes, p) ==
    LET at(i) == IF i <= Len(bytes) THEN bytes[i] ELSE 0
    IN  [panic |-> FALSE, byte |-> at(p + 1),
         count |-> ((at(p + 2) * 256 + at(p + 3)) * 256 + at(p + 4)) * 256 + at(p + 5)]

\* One pass of the header loop's body up to the termination test, with the iterator
\* at pos: five iter.next().unwrap() calls, the first of which to find the input
\* exhausted panics. count is built by three passes of count |= b; count <<= 8 and a
\* last count |= b: the u32 holds at most 24 bits before each shift, so no bit is
\* shifted out, and | adds a byte to 8 zero bits.
ReadGroup(bytes, p) ==
    IF p + 5 > Len(bytes)
    THEN [panic |-> TRUE, byte |-> 0, count |-> 0]
    ELSE LET c1 == (0 + bytes[p + 2]) * 256
             c2 == (c1 + bytes[p + 3]) * 256
             c3 == (c2 + bytes[p + 4]) * 256
         IN  [panic |-> FALSE, byte |-> bytes[p + 1], count |-> c3 + bytes[p + 5]]

\* The 8 chars of one byte: '1' where byte & (1 << (7 - i)) > 0, for i in 0..8.
ByteBits(byte) ==
    [k \in 1..8 |-> IF (byte \div Pow2(7 - (k - 1))) % 2 = 1 THEN "1" ELSE "0"]

RECURSIVE FlatMapBits(_)
FlatMapBits(bytes) ==
    IF bytes = <<>> THEN <<>> ELSE ByteBits(Head(bytes)) \o FlatMapBits(Tail(bytes))

\* encoding_map inverted: one key per code. Were two symbols to share a code, the
\* later insert would win; the codes of a tree are distinct.
InvertMap(map) ==
    [code \in {map[s] : s \in DOMAIN map} |-> CHOOSE s \in DOMAIN map : map[s] = code]

\* DecodeLoop without the break: a decoded EOF_CHARACTER is pushed like any byte.
RECURSIVE DecodeLoopNoBreak(_, _, _, _, _)
DecodeLoopNoBreak(bits, i, pattern, out, decoding_map) ==
    IF i > Len(bits) THEN [out |-> out, eof |-> FALSE]
    ELSE LET pattern1 == Append(pattern, bits[i])
         IN  IF pattern1 \in DOMAIN decoding_map
             THEN DecodeLoopNoBreak(bits, i + 1, <<>>,
                                    Append(out, decoding_map[pattern1]), decoding_map)
             ELSE DecodeLoopNoBreak(bits, i + 1, pattern1, out, decoding_map)

\* for bit in bits { ... }, from the bit at index i with the pattern and the output
\* so far. eof tells whether the loop was left by its break.
RECURSIVE DecodeLoop(_, _, _, _, _)
DecodeLoop(bits, i, pattern, out, decoding_map) ==
    IF i > Len(bits) THEN [out |-> out, eof |-> FALSE]
    ELSE LET pattern1 == Append(pattern, bits[i])
         IN  IF pattern1 \in DOMAIN decoding_map
             THEN IF decoding_map[pattern1] = EOF_CHARACTER
                  THEN [out |-> out, eof |-> TRUE]
                  ELSE DecodeLoop(bits, i + 1, <<>>,
                                  Append(out, decoding_map[pattern1]), decoding_map)
             ELSE DecodeLoop(bits, i + 1, pattern1, out, decoding_map)

----------------------------------------------------------------------------
(* The state machine *)

Buffers == SeqsUpTo(Symbols, MaxLen) \cup {Piazza}

\* Frequency tables: a count in 1..MaxCount for each symbol of a non-empty subset.
Tables == UNION {[S -> 1..MaxCount] : S \in SUBSET TreeSymbols \ {{}}}

Idle ==
    /\ data = <<>>
    /\ counter = EmptyMap
    /\ heap = <<>>
    /\ huffman_tree = <<>>
    /\ encoding_map = EmptyMap
    /\ compressed_data = <<>>
    /\ input = <<>>
    /\ pos = 0
    /\ decompressed_data = <<>>
    /\ combines = 0
    /\ last_combine = <<>>
    /\ eof_decoded = FALSE
    /\ calls = 0
    /\ previous = <<>>

\* main, about to call compress on its buffer.
Init ==
    /\ fn = "compress"
    /\ pc = "begin"
    /\ original \in Buffers
    /\ Idle

\* compress: data.push(EOF_CHARACTER); count_bytes(&data); entry of build_huffman_tree.
compress_begin ==
    /\ fn = "compress" /\ pc = "begin"
    /\ data' = Append(original, EOF_CHARACTER)
    /\ counter' = count_bytes(data')
    /\ calls' = calls + 1
    /\ pc' = "push"
    /\ UNCHANGED <<fn, original, heap, huffman_tree, encoding_map, compressed_data,
                   input, pos, decompressed_data, combines, last_combine,
                   eof_decoded, previous>>

\* build_huffman_tree: the leaves, pushed in the order counter.iter() yields them.
tree_push ==
    /\ pc = "push"
    /\ \E order \in IterOrders(counter) : heap' = PushLeaves(counter, order)
    /\ combines' = 0
    /\ last_combine' = <<>>
    /\ pc' = "combine"
    /\ UNCHANGED <<fn, original, data, counter, huffman_tree, encoding_map,
                   compressed_data, input, pos, decompressed_data, eof_decoded,
                   calls, previous>>

\* build_huffman_tree: one pass of while heap.len() > 1.
tree_combine ==
    /\ pc = "combine"
    /\ Len(heap) > 1
    /\ LET i == HeapPopIndex(heap)
           left == heap[i]
           heap1 == HeapRemove(heap, i)
           j == HeapPopIndex(heap1)
           right == heap1[j]
           heap2 == HeapRemove(heap1, j)
           new_node == combine(left, right)
       IN  /\ heap' = Append(heap2, new_node)
           /\ last_combine' = <<[heap |-> heap, left |-> left, right |-> right,
                                 new_node |-> new_node]>>
    /\ combines' = combines + 1
    /\ UNCHANGED <<fn, pc, original, data, counter, huffman_tree, encoding_map,
                   compressed_data, input, pos, decompressed_data, eof_decoded,
                   calls, previous>>

\* build_huffman_tree: heap.pop().unwrap().0 after the loop; the unwrap panics on
\* an empty heap.
tree_return ==
    /\ pc = "combine"
    /\ Len(heap) <= 1
    /\ IF Len(heap) = 0
       THEN /\ pc' = "panicked"
            /\ UNCHANGED <<heap, huffman_tree>>
       ELSE /\ huffman_tree' = <<heap[HeapPopIndex(heap)]>>
            /\ heap' = HeapRemove(heap, HeapPopIndex(heap))
            /\ pc' = "map"
    /\ UNCHANGED <<fn, original, data, counter, encoding_map, compressed_data,
                   input, pos, decompressed_data, combines, last_combine,
                   eof_decoded, calls, previous>>

\* build_encoding_map(&huffman_tree), then back in the caller.
encoding_map_build ==
    /\ pc = "map"
    /\ encoding_map' = build_encoding_map(huffman_tree[1])
    /\ pc' = IF fn = "compress" THEN "emit"
             ELSE IF fn = "decompress" THEN "decode" ELSE "done"
    /\ UNCHANGED <<fn, original, data, counter, heap, huffman_tree, compressed_data,
                   input, pos, decompressed_data, combines, last_combine,
                   eof_decoded, calls, previous>>

\* compress: the header, the payload, and the return.
compress_emit ==
    /\ fn = "compress" /\ pc = "emit"
    /\ \E order \in IterOrders(counter) :
          compressed_data' =
              <<BuildHeader(counter, order) \o EncodeBytes(EncodeBits(data, encoding_map))>>
    /\ pc' = "done"
    /\ UNCHANGED <<fn, original, data, counter, heap, huffman_tree, encoding_map,
                   input, pos, decompressed_data, combines, last_combine,
                   eof_decoded, calls, previous>>

\* A caller calling compress again on the same buffer.
compress_again ==
    /\ fn = "compress" /\ pc = "done"
    /\ calls < MaxCalls
    /\ previous' = compressed_data
    /\ pc' = "begin"
    /\ data' = <<>>
    /\ counter' = EmptyMap
    /\ huffman_tree' = <<>>
    /\ encoding_map' = EmptyMap
    /\ compressed_data' = <<>>
    /\ combines' = 0
    /\ last_combine' = <<>>
    /\ UNCHANGED <<fn, original, heap, input, pos, decompressed_data, eof_decoded,
                   calls>>

\* Entry of decompress(bytes): compress's locals are gone, the iterator is at the
\* start, counter is HashMap::new().
EnterDecompress(bytes) ==
    /\ input' = bytes
    /\ fn' = "decompress"
    /\ pc' = "header"
    /\ pos' = 0
    /\ data' = <<>>
    /\ counter' = EmptyMap
    /\ huffman_tree' = <<>>
    /\ encoding_map' = EmptyMap
    /\ combines' = 0
    /\ last_combine' = <<>>
    /\ UNCHANGED <<original, heap, compressed_data, decompressed_data, eof_decoded,
                   calls, previous>>

\* main: decompress(&compressed_data).
main_decompress ==
    /\ fn = "compress" /\ pc = "done"
    /\ EnterDecompress(compressed_data[1])

\* A caller handing decompress a stream cut short: the first n bytes of compress's.
decompress_truncated ==
    /\ fn = "compress" /\ pc = "done"
    /\ \E n \in 0..(Len(compressed_data[1]) - 1) :
          EnterDecompress(SubSeq(compressed_data[1], 1, n))

\* decompress: one pass of the header loop.
decompress_header ==
    /\ fn = "decompress" /\ pc = "header"
    /\ LET g == ReadGroup(input, pos)
       IN  IF g.panic
           THEN /\ pc' = "panicked"
                /\ pos' = Len(input)
                /\ UNCHANGED counter
           ELSE /\ pos' = pos + 5
                /\ IF g.byte = 0 /\ g.count = 0
                   THEN /\ pc' = "push"
                        /\ UNCHANGED counter
                   ELSE /\ pc' = "header"
                        /\ counter' = MapInsert(counter, g.byte, g.count)
    /\ UNCHANGED <<fn, original, data, heap, huffman_tree, encoding_map,
                   compressed_data, input, decompressed_data, combines, last_combine,
                   eof_decoded, calls, previous>>

\* decompress: the decoding map, the bits of the remaining bytes, the decode loop,
\* and the return.
decompress_decode ==
    /\ fn = "decompress" /\ pc = "decode"
    /\ LET decoding_map == InvertMap(encoding_map)
           encoded_data == SubSeq(input, pos + 1, Len(input))
           bits == FlatMapBits(encoded_data)
           r == DecodeLoop(bits, 1, <<>>, <<>>, decoding_map)
       IN  /\ decompressed_data' = <<r.out>>
           /\ eof_decoded' = r.eof
    /\ pos' = Len(input)
    /\ pc' = "done"
    /\ UNCHANGED <<fn, original, data, counter, heap, huffman_tree, encoding_map,
                   compressed_data, input, combines, last_combine, calls, previous>>

\* main: compress, then decompress; and decompress on a stream cut short.
Next ==
    \/ compress_begin
    \/ tree_push
    \/ tree_combine
    \/ tree_return
    \/ encoding_map_build
    \/ compress_emit
    \/ main_decompress
    \/ decompress_truncated
    \/ decompress_header
    \/ decompress_decode

Spec == Init /\ [][Next]_vars

\* compress called MaxCalls times on one buffer.
NextRepeat ==
    \/ compress_begin
    \/ tree_push
    \/ tree_combine
    \/ tree_return
    \/ encoding_map_build
    \/ compress_emit
    \/ compress_again

SpecRepeat == Init /\ [][NextRepeat]_vars

\* build_huffman_tree and build_encoding_map on a frequency table.
InitTree ==
    /\ fn = "tree"
    /\ pc = "push"
    /\ original = <<>>
    /\ data = <<>>
    /\ counter \in Tables
    /\ heap = <<>>
    /\ huffman_tree = <<>>
    /\ encoding_map = EmptyMap
    /\ compressed_data = <<>>
    /\ input = <<>>
    /\ pos = 0
    /\ decompressed_data = <<>>
    /\ combines = 0
    /\ last_combine = <<>>
    /\ eof_decoded = FALSE
    /\ calls = 0
    /\ previous = <<>>

NextTree ==
    \/ tree_push
    \/ tree_combine
    \/ tree_return
    \/ encoding_map_build

SpecTree == InitTree /\ [][NextTree]_vars

----------------------------------------------------------------------------
(* Vocabulary of the properties, defined apart from the operators above. *)

\* Number of occurrences of byte s in buffer b.
Occurrences(b, s) == Cardinality({i \in 1..Len(b) : b[i] = s})

\* The table of byte counts of b with one extra occurrence of 0x00.
TableOf(b) ==
    [s \in {b[i] : i \in 1..Len(b)} \cup {0} |->
        Occurrences(b, s) + (IF s = 0 THEN 1 ELSE 0)]

\* The k-th smallest element of a finite set of numbers.
KthSmallest(S, k) == CHOOSE x \in S : Cardinality({y \in S : y < x}) = k - 1

\* The 5-byte group number k (from 0) of a byte stream.
Group(bytes, k) == SubSeq(bytes, 5 * k + 1, 5 * k + 5)

\* The value of 4 bytes read as a big-endian number.
BigEndian(g) == g[1] * 16777216 + g[2] * 65536 + g[3] * 256 + g[4]

\* No complete group of the stream is the (0x00, count 0) terminator.
NoTerminator(bytes) ==
    \A k \in 0..((Len(bytes) \div 5) - 1) : Group(bytes, k) # <<0, 0, 0, 0, 0>>

\* Bit number k (from 0) of a byte stream read most-significant-bit first.
BitAt(bytes, k) == (bytes[(k \div 8) + 1] \div Pow2(7 - (k % 8))) % 2

IsPrefix(s, t) == Len(s) <= Len(t) /\ SubSeq(t, 1, Len(s)) = s

\* The longest prefix of b that contains no 0x00 byte.
ZeroFreePrefix(b) ==
    LET stop == {i \in 1..Len(b) : b[i] = 0}
        k == IF stop = {} THEN Len(b)
             ELSE (CHOOSE i \in stop : \A j \in stop : i <= j) - 1
    IN  SubSeq(b, 1, k)

RECURSIVE LeftmostLeafSymbol(_)
LeftmostLeafSymbol(node) ==
    IF node.data # <<>> THEN node.data[1] ELSE LeftmostLeafSymbol(node.left[1])

\* The order of the queue: weight ascending, then leftmost leaf symbol ascending.
Before(x, y) ==
    \/ x.weight < y.weight
    \/ x.weight = y.weight /\ LeftmostLeafSymbol(x) < LeftmostLeafSymbol(y)

Range(h) == {h[i] : i \in 1..Len(h)}

IsSmallest(x, S) == x \in S /\ \A y \in S \ {x} : Before(x, y)

\* decompress was given all of what compress returned, and has ended.
RoundTripEnded ==
    /\ fn = "decompress"
    /\ pc \in {"done", "panicked"}
    /\ input = compressed_data[1]

\* {0x00:1, i:1, p:1, a:2, z:2}
PiazzaTable == (0 :> 1) @@ (105 :> 1) @@ (112 :> 1) @@ (97 :> 2) @@ (122 :> 2)

PiazzaCodes ==
    (112 :> <<"0", "0">>) @@ (0 :> <<"0", "1", "0">>) @@ (105 :> <<"0", "1", "1">>)
        @@ (97 :> <<"1", "0">>) @@ (122 :> <<"1", "1">>)

----------------------------------------------------------------------------
(* Properties *)

\* C1: round-trip. For every byte buffer b, decompress(compress(b)) returns
\* exactly b.
C1_RoundTrip ==
    RoundTripEnded => pc = "done" /\ decompressed_data = <<original>>

\* C2: determinism. A second call of compress on the same buffer returns the same
\* bytes as the first, whatever the orders in which the two calls iterate the
\* frequency table when pushing the leaves and when collecting the header.
C2_Deterministic ==
    (fn = "compress" /\ pc = "done" /\ previous # <<>>) => compressed_data = previous

\* Reached: a second call has returned for a table of at least 3 entries, two of
\* them with equal counts.
C2_Witness ==
    /\ fn = "compress" /\ pc = "done" /\ previous # <<>>
    /\ Cardinality(DOMAIN counter) >= 3
    /\ \E s, t \in DOMAIN counter : s # t /\ counter[s] = counter[t]

\* C3: header round-trip. On compress(b), the header loop of decompress does not
\* panic and ends exactly at the all-zero group that follows the entries, no
\* earlier group being all-zero; the table it has built is the table of byte counts
\* of b with one more 0x00; entry k of the header is the k-th smallest symbol
\* followed by its count as 4 big-endian bytes.
C3_HeaderRoundTrip ==
    (fn = "decompress" /\ input = compressed_data[1]) =>
        LET table == TableOf(original)
            n == Cardinality(DOMAIN table)
        IN  /\ pc # "panicked"
            /\ pc = "header" => pos <= 5 * n
            /\ pc # "header" =>
                /\ counter = table
                /\ pos >= 5 * (n + 1)
                /\ Group(input, n) = <<0, 0, 0, 0, 0>>
                /\ \A k \in 0..(n - 1) : Group(input, k) # <<0, 0, 0, 0, 0>>
                /\ \A k \in 1..n :
                      LET g == Group(input, k - 1)
                      IN  /\ g[1] = KthSmallest(DOMAIN table, k)
                          /\ BigEndian(SubSeq(g, 2, 5)) = table[g[1]]

\* Reached: the header loop has just ended on compress(b) for a buffer b with a
\* 0x00 byte and two other byte values.
C3_Witness ==
    /\ fn = "decompress" /\ pc = "push" /\ input = compressed_data[1]
    /\ Cardinality(DOMAIN counter) = 3
    /\ counter[0] >= 2
    /\ pos = 20

\* C4: payload packing. The bytes of compress(b) after the header terminator, read
\* most-significant-bit first, are the codes of the bytes of b and of EOS in input
\* order, followed only by the fewer than 8 zero bits that complete the last byte
\* (none when the bit length is a multiple of 8).
C4_PayloadPacking ==
    (fn = "compress" /\ pc = "done") =>
        LET header_len == 5 * (Cardinality(DOMAIN counter) + 1)
            payload == SubSeq(compressed_data[1], header_len + 1,
                              Len(compressed_data[1]))
            L == Len(EncodeBits(data, encoding_map))
            codes == EncodeBits(data, encoding_map)
        IN  /\ 8 * Len(payload) - L \in 0..7
            /\ \A k \in 0..(8 * Len(payload) - 1) :
                  BitAt(payload, k) = IF k < L THEN Digit(codes[k + 1]) ELSE 0

\* C5: malformed header. When the input of decompress ends inside a 5-byte group,
\* or before any terminator group has been read, the call never leaves the header
\* loop but by a panic and returns nothing.
C5_MalformedHeader ==
    (fn = "decompress" /\ NoTerminator(input)) =>
        /\ pc \in {"header", "panicked"}
        /\ decompressed_data = <<>>
        /\ pc = "header" => pos <= Len(input) /\ pos % 5 = 0

\* Reached: decompress has panicked on an input of one complete entry group and a
\* part of the next group.
C5_Witness ==
    /\ fn = "decompress" /\ pc = "panicked"
    /\ NoTerminator(input)
    /\ Len(input) > 5 /\ Len(input) % 5 # 0

\* C6: truncated payload. When the header is well-formed and the bits run out
\* before an EOS is decoded, the call fails or flags its result as not cleanly
\* terminated. decompress returns a Vec<u8> and nothing else, so the only outcome
\* a caller can tell from a clean return is a failed call. Stated for tables of two
\* symbols or more, where EOS has a code that the bits could have held.
C6_TruncationReported ==
    (fn = "decompress" /\ pc \in {"done", "panicked"} /\ ~NoTerminator(input)
        /\ Cardinality(DOMAIN counter) >= 2 /\ ~eof_decoded) => pc = "panicked"

\* C7: degenerate table. When the frequency table has exactly one entry, the call
\* is rejected or the sole symbol has a code of exactly 1 bit, in compress and in
\* decompress alike.
C7_SingleSymbolCode ==
    (pc \in {"emit", "decode", "done"} /\ Cardinality(DOMAIN counter) = 1) =>
        \A s \in DOMAIN encoding_map : Len(encoding_map[s]) = 1

\* C8: prefix-free code. For a table of at least 2 symbols, build_encoding_map on
\* the tree of build_huffman_tree gives each symbol of the table one non-empty
\* code, pairwise distinct, none a prefix of another.
C8_PrefixFree ==
    (fn = "tree" /\ pc = "done" /\ Cardinality(DOMAIN counter) >= 2) =>
        /\ DOMAIN encoding_map = DOMAIN counter
        /\ \A s \in DOMAIN encoding_map : Len(encoding_map[s]) >= 1
        /\ \A s, t \in DOMAIN encoding_map :
              s # t => /\ encoding_map[s] # encoding_map[t]
                       /\ ~IsPrefix(encoding_map[s], encoding_map[t])

\* Reached: the code table of a 5-symbol table, with a code of 3 bits or more.
C8_Witness ==
    /\ fn = "tree" /\ pc = "done"
    /\ Cardinality(DOMAIN counter) = 5
    /\ \E s \in DOMAIN encoding_map : Len(encoding_map[s]) >= 3

\* C9: tree construction order. On a table of n >= 1 entries build_huffman_tree
\* makes exactly n - 1 combine steps and ends with one node. Each step removes the
\* smallest and then the second smallest node of the queue under (weight, leftmost
\* leaf symbol); the first is the left child and the second the right child of the
\* new node, whose weight is their sum. The table {0x00:1, i:1, p:1, a:2, z:2}
\* gives p=00, 0x00=010, i=011, a=10, z=11.
C9_TreeOrder ==
    LET n == Cardinality(DOMAIN counter)
    IN  /\ (fn = "tree" /\ pc = "combine") => Len(heap) + combines = n
        /\ (fn = "tree" /\ pc \in {"map", "done"}) =>
              /\ combines = n - 1
              /\ huffman_tree # <<>>
              /\ heap = <<>>
        /\ (fn = "tree" /\ last_combine # <<>>) =>
              LET step == last_combine[1]
              IN  /\ IsSmallest(step.left, Range(step.heap))
                  /\ IsSmallest(step.right, Range(step.heap) \ {step.left})
                  /\ step.new_node.data = <<>>
                  /\ step.new_node.left = <<step.left>>
                  /\ step.new_node.right = <<step.right>>
                  /\ step.new_node.weight = step.left.weight + step.right.weight
        /\ (fn = "tree" /\ pc = "done" /\ counter = PiazzaTable) =>
              encoding_map = PiazzaCodes

\* Reached: the code table of {0x00:1, i:1, p:1, a:2, z:2}, after 4 combine steps.
C9_Witness ==
    /\ fn = "tree" /\ pc = "done"
    /\ counter = PiazzaTable
    /\ combines = 4

\* C10: EOS collision. decompress(compress(b)) returns the longest prefix of b
\* that contains no 0x00 byte; when compress's table has two symbols or more the
\* decode loop ends by its break on a decoded 0x00.
C10_ZeroFreePrefix ==
    RoundTripEnded =>
        /\ pc = "done"
        /\ decompressed_data = <<ZeroFreePrefix(original)>>
        /\ Cardinality(DOMAIN counter) >= 2 => eof_decoded

\* Reached: a round trip of a buffer with a 0x00 byte between two other bytes,
\* which comes back cut.
C10_Witness ==
    /\ RoundTripEnded
    /\ \E i \in 2..(Len(original) - 1) :
          original[i] = 0 /\ original[i - 1] # 0 /\ original[i + 1] # 0
    /\ decompressed_data # <<original>>
    /\ decompressed_data # <<<<>>>>

====
